---- MODULE Spec2Model ----
(***************************************************************************)
(* The Minesweeper game of src/main.rs: the board, the game status and the  *)
(* two counters, driven by the messages Game::update handles.              *)
(***************************************************************************)
EXTENDS Integers, Sequences, FiniteSets, TLC

(* The grid and the mine count.  main.rs fixes them at 16 rows, 30 columns *)
(* and 99 mines (lines 7-9); the model keeps the code's arithmetic over    *)
(* them and checks a grid small enough to enumerate.                       *)
CELL_ROWS == 3
CELL_COLUMNS == 3
MINE_COUNT == 1

(* The largest side of the grids with_surrounding_cells is tried on. *)
MaxSide == 4

(* The most widgets that are pressed at a time: the mouse buttons held. *)
MaxPressed == 1

VARIABLES board, status, revealed_count, flag_count, message,
          work_list, lifo_result, surround, chord_list, is_pressed, shell

vars == <<board, status, revealed_count, flag_count, message,
          work_list, lifo_result, surround, chord_list, is_pressed, shell>>

(* work_list is reveal_vec of a reveal_multiple call that is under way,   *)
(* empty when none is; lifo_result is, for such a call, the Game the      *)
(* loop of lines 116-148 leaves when it pops from the back.  Where a      *)
(* handler is one step, both stay at their idle values.                   *)
(* surround is one call of with_surrounding_cells taken on its own: the   *)
(* grid size and the cell it is called with, and the coordinates its      *)
(* callback was called on.  It stays idle while the game runs.            *)
(* chord_list is, for a reveal_special call that is under way, the cells  *)
(* its revealing pass has still to visit; empty when none is.             *)
(* is_pressed is the set of widgets whose State.is_pressed is true        *)
(* (cell.rs); shell is what the widgets have published and Game::update   *)
(* has not been called with yet, oldest first.  Where the messages are    *)
(* fed to Game::update directly, both stay empty.                         *)
widgetVars == <<is_pressed, shell>>

auxVars == <<surround, chord_list, widgetVars>>

workVars == <<work_list, lifo_result, auxVars>>

(* enum CellValue *)
Mined == [tag |-> "Mined", n |-> 0]
Number(n) == [tag |-> "Number", n |-> n]
CellValue == {Mined} \cup {Number(n) : n \in 0..8}

(* enum CellStatus *)
Covered == "Covered"
Revealed == "Revealed"
Flagged == "Flagged"
CellStatus == {Covered, Revealed, Flagged}

(* struct Cell *)
Cell == [status : CellStatus, value : CellValue]

(* enum GameStatus *)
Playing == "Playing"
Pressing == "Pressing"
Lost == "Lost"
Won == "Won"
GameStatus == {Playing, Pressing, Lost, Won}

(* The index ranges of board: [[Cell; CELL_ROWS]; CELL_COLUMNS] *)
Xs == 0..(CELL_COLUMNS - 1)
Ys == 0..(CELL_ROWS - 1)
Positions == Xs \X Ys

gameVars == <<board, status, revealed_count, flag_count>>

(* struct Game, as a record; the variables hold its four fields. *)
Game == [board : [Xs -> [Ys -> Cell]], status : GameStatus,
         revealed_count : Nat, flag_count : Int]

game == [board |-> board, status |-> status,
         revealed_count |-> revealed_count, flag_count |-> flag_count]

(* reveal_multiple, lines 142-146: the callback pushes the neighbours     *)
(* that are Covered, in callback order.                                    *)
SelectCovered(b, s) == SelectSeq(s, LAMBDA p : b[p[1]][p[2]].status = Covered)

SeqToSet(s) == {s[i] : i \in 1..Len(s)}

(* with_surrounding_cells: the coordinates the callback is called on, in  *)
(* the order of the eight if-statements.  with_surrounding_cells_no_corners *)
(* is the faulty form that visits the four edge neighbours only.          *)
with_surrounding_cells_no_corners(x, y) ==
  LET first_y == y = 0
      last_y == y = CELL_ROWS - 1
      first_x == x = 0
      last_x == x = CELL_COLUMNS - 1
  IN  (IF ~first_x THEN << <<x - 1, y>> >> ELSE << >>)
   \o (IF ~first_y THEN << <<x, y - 1>> >> ELSE << >>)
   \o (IF ~last_x THEN << <<x + 1, y>> >> ELSE << >>)
   \o (IF ~last_y THEN << <<x, y + 1>> >> ELSE << >>)

with_surrounding_cells(x, y) ==
  LET first_y == y = 0
      last_y == y = CELL_ROWS - 1
      first_x == x = 0
      last_x == x = CELL_COLUMNS - 1
  IN  (IF ~first_x /\ ~first_y THEN << <<x - 1, y - 1>> >> ELSE << >>)
   \o (IF ~first_x THEN << <<x - 1, y>> >> ELSE << >>)
   \o (IF ~first_y THEN << <<x, y - 1>> >> ELSE << >>)
   \o (IF ~last_x /\ ~last_y THEN << <<x + 1, y + 1>> >> ELSE << >>)
   \o (IF ~last_x THEN << <<x + 1, y>> >> ELSE << >>)
   \o (IF ~last_y THEN << <<x, y + 1>> >> ELSE << >>)
   \o (IF ~first_x /\ ~last_y THEN << <<x - 1, y + 1>> >> ELSE << >>)
   \o (IF ~last_x /\ ~first_y THEN << <<x + 1, y - 1>> >> ELSE << >>)

(* with_surrounding_cells for a grid of `rows` rows and `columns`         *)
(* columns in place of CELL_ROWS and CELL_COLUMNS.  The coordinates are   *)
(* usize: a subtraction below 0 is an underflow, which shows here as a    *)
(* negative coordinate.  surrounding_cells_unguarded_left is the faulty   *)
(* form whose second if-statement lacks the first_x test.                 *)
surrounding_cells_unguarded_left(x, y, rows, columns) ==
  LET first_y == y = 0
      last_y == y = rows - 1
      first_x == x = 0
      last_x == x = columns - 1
  IN  (IF ~first_x /\ ~first_y THEN << <<x - 1, y - 1>> >> ELSE << >>)
   \o << <<x - 1, y>> >>
   \o (IF ~first_y THEN << <<x, y - 1>> >> ELSE << >>)
   \o (IF ~last_x /\ ~last_y THEN << <<x + 1, y + 1>> >> ELSE << >>)
   \o (IF ~last_x THEN << <<x + 1, y>> >> ELSE << >>)
   \o (IF ~last_y THEN << <<x, y + 1>> >> ELSE << >>)
   \o (IF ~first_x /\ ~last_y THEN << <<x - 1, y + 1>> >> ELSE << >>)
   \o (IF ~last_x /\ ~first_y THEN << <<x + 1, y - 1>> >> ELSE << >>)

surrounding_cells(x, y, rows, columns) ==
  LET first_y == y = 0
      last_y == y = rows - 1
      first_x == x = 0
      last_x == x = columns - 1
  IN  (IF ~first_x /\ ~first_y THEN << <<x - 1, y - 1>> >> ELSE << >>)
   \o (IF ~first_x THEN << <<x - 1, y>> >> ELSE << >>)
   \o (IF ~first_y THEN << <<x, y - 1>> >> ELSE << >>)
   \o (IF ~last_x /\ ~last_y THEN << <<x + 1, y + 1>> >> ELSE << >>)
   \o (IF ~last_x THEN << <<x + 1, y>> >> ELSE << >>)
   \o (IF ~last_y THEN << <<x, y + 1>> >> ELSE << >>)
   \o (IF ~first_x /\ ~last_y THEN << <<x - 1, y + 1>> >> ELSE << >>)
   \o (IF ~last_x /\ ~first_y THEN << <<x + 1, y - 1>> >> ELSE << >>)

(* No call of with_surrounding_cells on its own is under way. *)
NoSurround == [rows |-> 0, columns |-> 0, x |-> 0, y |-> 0,
               called |-> FALSE, calls |-> << >>]

(* Game::new, line 206: every cell Covered with value Number(0). *)
EmptyBoard == [x \in Xs |-> [y \in Ys |-> [status |-> Covered, value |-> Number(0)]]]

(* Game::add_mines: the first MINE_COUNT positions of a shuffle of all    *)
(* positions are mined; `mines` is that set of positions.                 *)
MinePlacements == {m \in SUBSET Positions : Cardinality(m) = MINE_COUNT}

add_mines(b, mines) ==
  [x \in Xs |-> [y \in Ys |->
     IF <<x, y>> \in mines THEN [b[x][y] EXCEPT !.value = Mined] ELSE b[x][y]]]

(* Game::add_numbers: every non-mined cell gets the count of the mined    *)
(* cells the callback visits.  add_numbers_miss_last is the faulty form   *)
(* that leaves the last visited cell out of the count.                    *)
add_numbers_miss_last(b) ==
  [x \in Xs |-> [y \in Ys |->
     IF b[x][y].value = Mined THEN b[x][y]
     ELSE LET around == with_surrounding_cells(x, y)
              count == Cardinality({i \in 1..(Len(around) - 1) :
                          b[around[i][1]][around[i][2]].value = Mined})
          IN  [b[x][y] EXCEPT !.value = Number(count)]]]

add_numbers(b) ==
  [x \in Xs |-> [y \in Ys |->
     IF b[x][y].value = Mined THEN b[x][y]
     ELSE LET around == with_surrounding_cells(x, y)
              count == Cardinality({i \in 1..Len(around) :
                          b[around[i][1]][around[i][2]].value = Mined})
          IN  [b[x][y] EXCEPT !.value = Number(count)]]]

(* Game::new *)
new(mines) ==
  [board |-> add_numbers(add_mines(EmptyBoard, mines)),
   status |-> Playing,
   revealed_count |-> 0,
   flag_count |-> 0]

(* reveal_multiple, lines 120-123: a popped cell that is not Covered is    *)
(* skipped ("Only reveal cells which haven't been revealed").  The two    *)
(* definitions before it are faulty forms of the test: one never skips,   *)
(* one skips Revealed cells only and so lets a Flagged cell through.      *)
skip_cell_never(b, x, y) == FALSE

skip_cell_only_revealed(b, x, y) == b[x][y].status = Revealed

skip_cell(b, x, y) == b[x][y].status # Covered

(* A faulty form of the loop of reveal_multiple: revealed_count is        *)
(* incremented before the Mined test instead of after it.                  *)
RECURSIVE reveal_loop_count_first(_, _)
reveal_loop_count_first(g, reveal_vec) ==
  IF reveal_vec = << >> THEN g
  ELSE LET cell == reveal_vec[Len(reveal_vec)]
           rest == SubSeq(reveal_vec, 1, Len(reveal_vec) - 1)
           x == cell[1]
           y == cell[2]
       IN  IF skip_cell(g.board, x, y) THEN reveal_loop_count_first(g, rest)
           ELSE LET b1 == [g.board EXCEPT ![x][y].status = Revealed]
                    g1 == [g EXCEPT !.board = b1,
                                    !.revealed_count = g.revealed_count + 1]
                IN  IF b1[x][y].value = Mined
                    THEN [g1 EXCEPT !.status = Lost]
                    ELSE IF g1.revealed_count >= CELL_ROWS * CELL_COLUMNS - MINE_COUNT
                         THEN [g1 EXCEPT !.status = Won]
                         ELSE IF b1[x][y].value = Number(0)
                              THEN reveal_loop_count_first(g1, rest \o
                                     SelectCovered(b1, with_surrounding_cells(x, y)))
                              ELSE reveal_loop_count_first(g1, rest)

(* Game::reveal_multiple: the while-let loop over reveal_vec, popping      *)
(* from the back (Vec::pop) and pushing the Covered neighbours of a        *)
(* revealed Number(0) cell in callback order.                              *)
RECURSIVE reveal_loop(_, _)
reveal_loop(g, reveal_vec) ==
  IF reveal_vec = << >> THEN g
  ELSE LET cell == reveal_vec[Len(reveal_vec)]
           rest == SubSeq(reveal_vec, 1, Len(reveal_vec) - 1)
           x == cell[1]
           y == cell[2]
       IN  IF skip_cell(g.board, x, y) THEN reveal_loop(g, rest)
           ELSE LET b1 == [g.board EXCEPT ![x][y].status = Revealed]
                IN  IF b1[x][y].value = Mined
                    THEN [g EXCEPT !.board = b1, !.status = Lost]
                    ELSE LET g1 == [g EXCEPT !.board = b1,
                                             !.revealed_count = g.revealed_count + 1]
                         IN  IF g1.revealed_count >= CELL_ROWS * CELL_COLUMNS - MINE_COUNT
                             THEN [g1 EXCEPT !.status = Won]
                             ELSE IF b1[x][y].value = Number(0)
                                  THEN reveal_loop(g1, rest \o
                                         SelectCovered(b1, with_surrounding_cells(x, y)))
                                  ELSE reveal_loop(g1, rest)

reveal_multiple(g, x, y) == reveal_loop(g, << <<x, y>> >>)

(* A faulty form of the callbacks of reveal_special: once a reveal has     *)
(* set the status to Lost or Won the remaining neighbours are left alone.  *)
RECURSIVE reveal_neighbors_until_over(_, _)
reveal_neighbors_until_over(g, around) ==
  IF around = << >> \/ g.status \in {Lost, Won} THEN g
  ELSE LET p == Head(around)
       IN  IF g.board[p[1]][p[2]].status = Covered
           THEN reveal_neighbors_until_over(reveal_multiple(g, p[1], p[2]), Tail(around))
           ELSE reveal_neighbors_until_over(g, Tail(around))

(* Game::reveal_special: the second with_surrounding_cells call, one      *)
(* callback at a time; each callback reads the board as the previous ones *)
(* left it.                                                                *)
RECURSIVE reveal_neighbors(_, _)
reveal_neighbors(g, around) ==
  IF around = << >> THEN g
  ELSE LET p == Head(around)
       IN  IF g.board[p[1]][p[2]].status = Covered
           THEN reveal_neighbors(reveal_multiple(g, p[1], p[2]), Tail(around))
           ELSE reveal_neighbors(g, Tail(around))

(* Game::reveal_special; reveal_special_any_status is the faulty form      *)
(* without the Revealed test of lines 153-155.                             *)
reveal_special_any_status(g, x, y) ==
  IF g.board[x][y].value.tag = "Number"
  THEN LET cell_number == g.board[x][y].value.n
           around == with_surrounding_cells(x, y)
           flags == Cardinality({i \in 1..Len(around) :
                       g.board[around[i][1]][around[i][2]].status = Flagged})
       IN  IF flags = cell_number THEN reveal_neighbors(g, around) ELSE g
  ELSE g

reveal_special(g, x, y) ==
  IF g.board[x][y].status # Revealed THEN g
  ELSE IF g.board[x][y].value.tag = "Number"
       THEN LET cell_number == g.board[x][y].value.n
                around == with_surrounding_cells(x, y)
                flags == Cardinality({i \in 1..Len(around) :
                            g.board[around[i][1]][around[i][2]].status = Flagged})
            IN  IF flags = cell_number THEN reveal_neighbors(g, around) ELSE g
       ELSE g

(* Game::update, Message::Flag(x, y).  The two definitions before flag   *)
(* are faulty forms: one without the status test of lines 247-249, one   *)
(* without the budget test of lines 253-256.                              *)
flag_no_status_test(g, x, y) ==
  IF g.board[x][y].status = Covered
  THEN IF MINE_COUNT = g.flag_count THEN g
       ELSE [g EXCEPT !.board[x][y].status = Flagged,
                      !.flag_count = g.flag_count + 1]
  ELSE IF g.board[x][y].status = Flagged
       THEN [g EXCEPT !.board[x][y].status = Covered,
                      !.flag_count = g.flag_count - 1]
       ELSE g

flag_no_budget_test(g, x, y) ==
  IF g.status # Playing THEN g
  ELSE IF g.board[x][y].status = Covered
       THEN [g EXCEPT !.board[x][y].status = Flagged,
                      !.flag_count = g.flag_count + 1]
       ELSE IF g.board[x][y].status = Flagged
            THEN [g EXCEPT !.board[x][y].status = Covered,
                           !.flag_count = g.flag_count - 1]
            ELSE g

(* A faulty form whose match has no arm for Revealed: a cell that is not   *)
(* Covered is handled as a Flagged one.                                   *)
flag_no_revealed_arm(g, x, y) ==
  IF g.status # Playing THEN g
  ELSE IF g.board[x][y].status = Covered
       THEN IF MINE_COUNT = g.flag_count THEN g
            ELSE [g EXCEPT !.board[x][y].status = Flagged,
                           !.flag_count = g.flag_count + 1]
       ELSE [g EXCEPT !.board[x][y].status = Covered,
                      !.flag_count = g.flag_count - 1]

flag(g, x, y) ==
  IF g.status # Playing THEN g
  ELSE IF g.board[x][y].status = Covered
       THEN IF MINE_COUNT = g.flag_count THEN g
            ELSE [g EXCEPT !.board[x][y].status = Flagged,
                           !.flag_count = g.flag_count + 1]
       ELSE IF g.board[x][y].status = Flagged
            THEN [g EXCEPT !.board[x][y].status = Covered,
                           !.flag_count = g.flag_count - 1]
            ELSE g

(* enum Message, by variant.  `message` is the variant of the argument of *)
(* the last Game::update call, NoMessage before the first call.           *)
NoMessage == "None"
MsgNewGame == "NewGame"
MsgPressing(b) == IF b THEN "PressingTrue" ELSE "PressingFalse"
MsgReveal == "Reveal"
MsgSpecialReveal == "SpecialReveal"
MsgFlag == "Flag"
Message == {MsgNewGame, MsgPressing(TRUE), MsgPressing(FALSE),
            MsgReveal, MsgSpecialReveal, MsgFlag}

(* The value of lifo_result while no reveal_multiple call is under way. *)
NoCall == [board |-> << >>, status |-> "None", revealed_count |-> 0, flag_count |-> 0]

(* Writes a Game record back to the variables. *)
Becomes(g) ==
  /\ board' = g.board
  /\ status' = g.status
  /\ revealed_count' = g.revealed_count
  /\ flag_count' = g.flag_count

(* Sandbox::new: the state the application starts in. *)
Init == \E mines \in MinePlacements :
           /\ board = new(mines).board
           /\ status = new(mines).status
           /\ revealed_count = new(mines).revealed_count
           /\ flag_count = new(mines).flag_count
           /\ message = NoMessage
           /\ work_list = << >>
           /\ lifo_result = NoCall
           /\ surround = NoSurround
           /\ chord_list = << >>
           /\ is_pressed = {}
           /\ shell = << >>

(* Game::update, one action per Message variant. *)
(* NewGame_new_board_only is a faulty form of the NewGame arm that puts a  *)
(* new board in place and keeps the status and the counters.              *)
NewGame_new_board_only ==
  /\ message' = MsgNewGame
  /\ UNCHANGED workVars
  /\ \E mines \in MinePlacements : board' = new(mines).board
  /\ UNCHANGED <<status, revealed_count, flag_count>>

NewGame ==
  /\ message' = MsgNewGame
  /\ UNCHANGED workVars
  /\ \E mines \in MinePlacements : Becomes(new(mines))

PressingTrue ==
  /\ message' = MsgPressing(TRUE)
  /\ UNCHANGED workVars
  /\ status' = Pressing
  /\ UNCHANGED <<board, revealed_count, flag_count>>

PressingFalse ==
  /\ message' = MsgPressing(FALSE)
  /\ UNCHANGED workVars
  /\ status' = Playing
  /\ UNCHANGED <<board, revealed_count, flag_count>>

Reveal(x, y) ==
  /\ message' = MsgReveal
  /\ UNCHANGED workVars
  /\ Becomes(reveal_multiple(game, x, y))

SpecialReveal(x, y) ==
  /\ message' = MsgSpecialReveal
  /\ UNCHANGED workVars
  /\ Becomes(reveal_special(game, x, y))

Flag(x, y) ==
  /\ message' = MsgFlag
  /\ UNCHANGED workVars
  /\ Becomes(flag(game, x, y))

Next ==
  \/ NewGame
  \/ PressingTrue
  \/ PressingFalse
  \/ \E p \in Positions : Reveal(p[1], p[2])
  \/ \E p \in Positions : SpecialReveal(p[1], p[2])
  \/ \E p \in Positions : Flag(p[1], p[2])

Spec == Init /\ [][Next]_vars

(* One iteration of the loop of reveal_multiple (lines 116-148) that      *)
(* takes the candidate at index i of the work-list instead of the last    *)
(* one: the Game and the work-list it leaves.  Both returns drop the      *)
(* work-list.                                                              *)
reveal_step_keeps_skipped(g, vec, i) ==
  LET cell == vec[i]
      rest == SubSeq(vec, 1, i - 1) \o SubSeq(vec, i + 1, Len(vec))
      x == cell[1]
      y == cell[2]
  IN  IF skip_cell(g.board, x, y) THEN [g |-> g, vec |-> vec]
      ELSE LET b1 == [g.board EXCEPT ![x][y].status = Revealed]
           IN  IF b1[x][y].value = Mined
               THEN [g |-> [g EXCEPT !.board = b1, !.status = Lost], vec |-> << >>]
               ELSE LET g1 == [g EXCEPT !.board = b1,
                                        !.revealed_count = g.revealed_count + 1]
                    IN  IF g1.revealed_count >= CELL_ROWS * CELL_COLUMNS - MINE_COUNT
                        THEN [g |-> [g1 EXCEPT !.status = Won], vec |-> << >>]
                        ELSE IF b1[x][y].value = Number(0)
                             THEN [g |-> g1,
                                   vec |-> rest \o
                                     SelectCovered(b1, with_surrounding_cells(x, y))]
                             ELSE [g |-> g1, vec |-> rest]

reveal_step(g, vec, i) ==
  LET cell == vec[i]
      rest == SubSeq(vec, 1, i - 1) \o SubSeq(vec, i + 1, Len(vec))
      x == cell[1]
      y == cell[2]
  IN  IF skip_cell(g.board, x, y) THEN [g |-> g, vec |-> rest]
      ELSE LET b1 == [g.board EXCEPT ![x][y].status = Revealed]
           IN  IF b1[x][y].value = Mined
               THEN [g |-> [g EXCEPT !.board = b1, !.status = Lost], vec |-> << >>]
               ELSE LET g1 == [g EXCEPT !.board = b1,
                                        !.revealed_count = g.revealed_count + 1]
                    IN  IF g1.revealed_count >= CELL_ROWS * CELL_COLUMNS - MINE_COUNT
                        THEN [g |-> [g1 EXCEPT !.status = Won], vec |-> << >>]
                        ELSE IF b1[x][y].value = Number(0)
                             THEN [g |-> g1,
                                   vec |-> rest \o
                                     SelectCovered(b1, with_surrounding_cells(x, y))]
                             ELSE [g |-> g1, vec |-> rest]

(* Message::Reveal(x, y) arrives: reveal_multiple starts with the         *)
(* work-list vec![(x, y)] (line 114).                                      *)
RevealCall(x, y) ==
  /\ work_list = << >>
  /\ message' = MsgReveal
  /\ work_list' = << <<x, y>> >>
  /\ lifo_result' = reveal_multiple(game, x, y)
  /\ UNCHANGED gameVars
  /\ UNCHANGED auxVars

(* One iteration, on any pending candidate. *)
RevealStep ==
  /\ work_list # << >>
  /\ \E i \in 1..Len(work_list) :
        LET r == reveal_step(game, work_list, i)
        IN  /\ Becomes(r.g)
            /\ work_list' = r.vec
            /\ lifo_result' = IF r.vec = << >> THEN NoCall ELSE lifo_result
  /\ UNCHANGED message
  /\ UNCHANGED auxVars

(* The game with reveal_multiple taken one iteration at a time and in any *)
(* order of the work-list; the other handlers run between calls.          *)
NextAnyOrder ==
  \/ work_list = << >> /\ NewGame
  \/ work_list = << >> /\ PressingTrue
  \/ work_list = << >> /\ PressingFalse
  \/ \E p \in Positions : RevealCall(p[1], p[2])
  \/ RevealStep
  \/ \E p \in Positions : work_list = << >> /\ SpecialReveal(p[1], p[2])
  \/ \E p \in Positions : work_list = << >> /\ Flag(p[1], p[2])

SpecAnyOrder == Init /\ [][NextAnyOrder]_vars

(* with_surrounding_cells on its own: any grid of 1..MaxSide rows and     *)
(* columns, single rows and single columns among them, and any cell of    *)
(* it; the one step is the call.                                          *)
InitGrid ==
  /\ board = EmptyBoard
  /\ status = Playing
  /\ revealed_count = 0
  /\ flag_count = 0
  /\ message = NoMessage
  /\ work_list = << >>
  /\ lifo_result = NoCall
  /\ chord_list = << >>
  /\ is_pressed = {}
  /\ shell = << >>
  /\ \E rows \in 1..MaxSide, columns \in 1..MaxSide :
       \E x \in 0..(columns - 1), y \in 0..(rows - 1) :
         surround = [rows |-> rows, columns |-> columns, x |-> x, y |-> y,
                     called |-> FALSE, calls |-> << >>]

SurroundingCall ==
  /\ ~surround.called
  /\ surround' = [surround EXCEPT
                    !.called = TRUE,
                    !.calls = surrounding_cells(surround.x, surround.y,
                                                surround.rows, surround.columns)]
  /\ UNCHANGED <<gameVars, message, work_list, lifo_result, chord_list, widgetVars>>

NextGrid == SurroundingCall

SpecGrid == InitGrid /\ [][NextGrid]_vars

(* reveal_special, lines 152-164: the cell is a Revealed Number and as    *)
(* many of the cells around it are Flagged as its number says.            *)
chord_matches(g, x, y) ==
  /\ g.board[x][y].status = Revealed
  /\ g.board[x][y].value.tag = "Number"
  /\ LET around == with_surrounding_cells(x, y)
     IN  Cardinality({i \in 1..Len(around) :
            g.board[around[i][1]][around[i][2]].status = Flagged})
           = g.board[x][y].value.n

Idle == work_list = << >> /\ chord_list = << >>

(* Message::Reveal(x, y) arrives: reveal_multiple starts (line 114). *)
RunRevealCall(x, y) ==
  /\ Idle
  /\ message' = MsgReveal
  /\ work_list' = << <<x, y>> >>
  /\ UNCHANGED <<gameVars, lifo_result, auxVars>>

(* Message::SpecialReveal(x, y) arrives: reveal_special returns at once   *)
(* or starts its revealing pass over the cells around (x, y).             *)
RunChordCall(x, y) ==
  /\ Idle
  /\ message' = MsgSpecialReveal
  /\ chord_list' = IF chord_matches(game, x, y)
                   THEN with_surrounding_cells(x, y) ELSE << >>
  /\ UNCHANGED <<gameVars, work_list, lifo_result, surround, widgetVars>>

(* The next callback of the revealing pass (lines 165-172): a cell that   *)
(* is Covered now is handed to reveal_multiple.                           *)
ChordNext ==
  /\ work_list = << >>
  /\ chord_list # << >>
  /\ LET p == Head(chord_list)
     IN  work_list' = IF board[p[1]][p[2]].status = Covered THEN << p >> ELSE << >>
  /\ chord_list' = Tail(chord_list)
  /\ UNCHANGED <<gameVars, message, lifo_result, surround, widgetVars>>

(* One iteration of the loop of reveal_multiple, on the candidate its pop *)
(* takes: the last one.                                                   *)
RunStep ==
  /\ work_list # << >>
  /\ LET r == reveal_step(game, work_list, Len(work_list))
     IN  Becomes(r.g) /\ work_list' = r.vec
  /\ UNCHANGED <<message, lifo_result, auxVars>>

(* The game with reveal_multiple and reveal_special taken one iteration   *)
(* at a time, in the code's order; a handler starts when none is running. *)
NextRun ==
  \/ Idle /\ NewGame
  \/ Idle /\ PressingTrue
  \/ Idle /\ PressingFalse
  \/ \E p \in Positions : RunRevealCall(p[1], p[2])
  \/ \E p \in Positions : RunChordCall(p[1], p[2])
  \/ ChordNext
  \/ RunStep
  \/ \E p \in Positions : Idle /\ Flag(p[1], p[2])

SpecRun == Init /\ [][NextRun]_vars

(* A handler that is running keeps running: update does not return, and   *)
(* no other message is handled, until its loops are through.              *)
SpecRunFair == SpecRun /\ WF_vars(RunStep) /\ WF_vars(ChordNext)

(***************************************************************************)
(* The widgets: Game::view builds one per cell and one for the face, each  *)
(* with the messages it publishes; CellWidget::on_event publishes them on  *)
(* mouse events; the runtime calls Game::update with each published        *)
(* message, oldest first, and then builds the view anew.                   *)
(***************************************************************************)

(* A Message with its arguments; x and y are 0 for the variants without.  *)
Msg(variant, x, y) == [variant |-> variant, x |-> x, y |-> y]

Published ==
  {Msg(MsgNewGame, 0, 0), Msg(MsgPressing(TRUE), 0, 0), Msg(MsgPressing(FALSE), 0, 0)}
    \cup {Msg(v, p[1], p[2]) : v \in {MsgReveal, MsgSpecialReveal, MsgFlag}, p \in Positions}

(* The widgets in the order view pushes them: the face in the top row,    *)
(* then the cells row by row (lines 281-287, 293-295).                    *)
Face == 0
Widgets == 0..(CELL_ROWS * CELL_COLUMNS)
CellOf(w) == <<(w - 1) % CELL_COLUMNS, (w - 1) \div CELL_COLUMNS>>
WidgetOf(p) == 1 + p[2] * CELL_COLUMNS + p[1]

(* Option<Message>: None is the empty sequence, Some(m) is << m >>. *)
NoHandlers == [on_press |-> << >>, on_release |-> << >>, on_left_click |-> << >>,
               on_right_click |-> << >>, on_middle_click |-> << >>]

(* Game::view, lines 281-287 and 296-329: the messages of widget w. *)
view(g, w) ==
  IF w = Face
  THEN [NoHandlers EXCEPT !.on_left_click = << Msg(MsgNewGame, 0, 0) >>]
  ELSE LET x == CellOf(w)[1]
           y == CellOf(w)[2]
           c == g.board[x][y]
       IN  IF c.status = Flagged
           THEN [NoHandlers EXCEPT !.on_right_click = << Msg(MsgFlag, x, y) >>]
           ELSE IF c.status = Covered
           THEN IF g.status \in {Playing, Pressing}
                THEN [on_press |-> << Msg(MsgPressing(TRUE), 0, 0) >>,
                      on_release |-> << Msg(MsgPressing(FALSE), 0, 0) >>,
                      on_left_click |-> << Msg(MsgReveal, x, y) >>,
                      on_right_click |-> << Msg(MsgFlag, x, y) >>,
                      on_middle_click |-> << >>]
                ELSE NoHandlers
           ELSE IF c.value = Mined \/ c.value = Number(0)
           THEN NoHandlers
           ELSE [NoHandlers EXCEPT
                   !.on_press = << Msg(MsgPressing(TRUE), 0, 0) >>,
                   !.on_release = << Msg(MsgPressing(FALSE), 0, 0) >>,
                   !.on_middle_click = << Msg(MsgSpecialReveal, x, y) >>]

(* mouse::Button, as on_event tells them apart. *)
Buttons == {"Left", "Right", "Other"}

(* CellWidget::on_event, ButtonReleased (cell.rs lines 148-166), for one  *)
(* widget w that is pressed: on_release first, then the click of the      *)
(* button when the cursor is over w.  widget_release_click_first is the   *)
(* faulty form that publishes the click before on_release.                *)
widget_release_click_first(h, w, button, cursor) ==
  LET on_click == IF button = "Left" THEN h.on_left_click
                  ELSE IF button = "Right" THEN h.on_right_click
                  ELSE << >>
  IN  (IF cursor = w THEN on_click ELSE << >>) \o h.on_release

widget_release(h, w, button, cursor) ==
  LET on_click == IF button = "Left" THEN h.on_left_click
                  ELSE IF button = "Right" THEN h.on_right_click
                  ELSE << >>
  IN  h.on_release \o (IF cursor = w THEN on_click ELSE << >>)

(* ButtonReleased goes to every widget, in the order of the view; those   *)
(* that are not pressed ignore it (lines 149-152).                        *)
RECURSIVE release_from(_, _, _, _, _)
release_from(g, pressed, button, cursor, w) ==
  IF w > CELL_ROWS * CELL_COLUMNS THEN << >>
  ELSE (IF w \in pressed THEN widget_release(view(g, w), w, button, cursor) ELSE << >>)
         \o release_from(g, pressed, button, cursor, w + 1)

(* Game::update for the messages that need no new board. *)
update(g, m) ==
  IF m.variant = MsgPressing(TRUE) THEN [g EXCEPT !.status = Pressing]
  ELSE IF m.variant = MsgPressing(FALSE) THEN [g EXCEPT !.status = Playing]
  ELSE IF m.variant = MsgReveal THEN reveal_multiple(g, m.x, m.y)
  ELSE IF m.variant = MsgSpecialReveal THEN reveal_special(g, m.x, m.y)
  ELSE IF m.variant = MsgFlag THEN flag(g, m.x, m.y)
  ELSE g

RECURSIVE update_all(_, _)
update_all(g, ms) ==
  IF ms = << >> THEN g ELSE update_all(update(g, Head(ms)), Tail(ms))

(* ButtonPressed with the cursor over widget w (cell.rs lines 137-146). *)
ButtonPressed(w) ==
  /\ shell = << >>
  /\ Cardinality(is_pressed \cup {w}) <= MaxPressed
  /\ is_pressed' = is_pressed \cup {w}
  /\ shell' = view(game, w).on_press
  /\ UNCHANGED <<gameVars, message, work_list, lifo_result, surround, chord_list>>

(* ButtonReleased of `button` with the cursor over widget `cursor`, or    *)
(* over none of them (cursor = -1).                                       *)
ButtonReleased(button, cursor) ==
  /\ shell = << >>
  /\ is_pressed # {}
  /\ is_pressed' = {}
  /\ shell' = release_from(game, is_pressed, button, cursor, 0)
  /\ UNCHANGED <<gameVars, message, work_list, lifo_result, surround, chord_list>>

(* Both events of a click handled before any message: the widgets are     *)
(* those of the view as it was before the press.                          *)
ButtonClicked(button, w) ==
  /\ shell = << >>
  /\ Cardinality(is_pressed \cup {w}) <= MaxPressed
  /\ is_pressed' = {}
  /\ shell' = view(game, w).on_press
                \o release_from(game, is_pressed \cup {w}, button, w, 0)
  /\ UNCHANGED <<gameVars, message, work_list, lifo_result, surround, chord_list>>

(* The runtime hands the oldest published message to Game::update. *)
Deliver ==
  /\ shell # << >>
  /\ message' = Head(shell).variant
  /\ shell' = Tail(shell)
  /\ IF Head(shell).variant = MsgNewGame
     THEN \E mines \in MinePlacements : Becomes(new(mines))
     ELSE Becomes(update(game, Head(shell)))
  /\ UNCHANGED <<is_pressed, work_list, lifo_result, surround, chord_list>>

NextWidget ==
  \/ \E w \in Widgets : ButtonPressed(w)
  \/ \E button \in Buttons, cursor \in Widgets \cup {-1} : ButtonReleased(button, cursor)
  \/ \E button \in Buttons, w \in Widgets : ButtonClicked(button, w)
  \/ Deliver

SpecWidget == Init /\ [][NextWidget]_vars

TypeOK ==
  /\ board \in [Xs -> [Ys -> Cell]]
  /\ status \in GameStatus
  /\ revealed_count \in Nat
  /\ flag_count \in Int
  /\ message \in Message \cup {NoMessage}
  /\ work_list \in Seq(Positions)
  /\ lifo_result \in Game \cup {NoCall}
  /\ surround \in [rows : 0..MaxSide, columns : 0..MaxSide, x : Nat, y : Nat,
                   called : BOOLEAN, calls : Seq(Int \X Int)]
  /\ chord_list \in Seq(Positions)
  /\ is_pressed \subseteq Widgets
  /\ shell \in Seq(Published)

(***************************************************************************)
(* Properties                                                              *)
(***************************************************************************)
Terminal == status \in {Lost, Won}

Threshold == CELL_ROWS * CELL_COLUMNS - MINE_COUNT

CellsWith(b, st) == {p \in Positions : b[p[1]][p[2]].status = st}

MinedCells(b) == {p \in Positions : b[p[1]][p[2]].value = Mined}

SameCells(g, h) ==
  /\ \A p \in Positions : g.board[p[1]][p[2]].status = h.board[p[1]][p[2]].status
  /\ g.revealed_count = h.revealed_count
  /\ g.flag_count = h.flag_count

(* C1: while the status is Lost or Won, a step that handles              *)
(* Message::SpecialReveal (reveal_special) on any cell changes no cell    *)
(* status, neither counter and not the game status.                       *)
C1_ChordFrozenWhenTerminal ==
  [][(Terminal /\ message' = MsgSpecialReveal) => UNCHANGED gameVars]_vars

(* C2: while the status is Lost or Won, a step that handles              *)
(* Message::Reveal (reveal_multiple) on any cell changes no cell status,  *)
(* neither counter and not the game status.                               *)
C2_RevealFrozenWhenTerminal ==
  [][(Terminal /\ message' = MsgReveal) => UNCHANGED gameVars]_vars

(* C3: while the status is Lost or Won, a step that handles Message::Flag *)
(* on any cell leaves every cell, flag_count, revealed_count and the      *)
(* status as they were.                                                   *)
C3_FlagNoOpWhenTerminal ==
  [][(Terminal /\ message' = MsgFlag) => UNCHANGED gameVars]_vars

(* C3 witness: Flag was handled with the status Lost (Flag never changes  *)
(* the status), a Covered cell is left and flag_count is still 0.         *)
C3_Witness ==
  /\ status = Lost
  /\ message = MsgFlag
  /\ flag_count = 0
  /\ CellsWith(board, Covered) # {}
  /\ CellsWith(board, Revealed) \cap MinedCells(board) # {}

(* C4: while the status is Lost or Won, every step that does not handle   *)
(* Message::NewGame keeps the status.                                     *)
C4_TerminalStatusKept ==
  [][(Terminal /\ message' # MsgNewGame) => status' = status]_vars

(* C5: revealed_count = CELL_ROWS * CELL_COLUMNS - MINE_COUNT exactly     *)
(* when the status is Won.                                                *)
C5_WonIffAllNumbersRevealed ==
  (revealed_count = Threshold) <=> (status = Won)

(* C6: a step puts the status to Lost only by revealing a Covered Mined   *)
(* cell, either the target of Message::Reveal or a neighbour that         *)
(* reveal_special hands to reveal_multiple; Message::Reveal on a Covered  *)
(* Mined cell does put it to Lost; and Message::Reveal on a cell that is  *)
(* not Mined reveals no mine and does not put the status to Lost.         *)
C6_LostOnlyByRevealingMine ==
  [][/\ (status' = Lost /\ status # Lost) =>
          \/ \E p \in Positions :
                /\ Reveal(p[1], p[2])
                /\ board[p[1]][p[2]].value = Mined
                /\ board[p[1]][p[2]].status = Covered
          \/ \E p \in Positions :
                /\ SpecialReveal(p[1], p[2])
                /\ \E q \in SeqToSet(with_surrounding_cells(p[1], p[2])) :
                      /\ board[q[1]][q[2]].value = Mined
                      /\ board[q[1]][q[2]].status = Covered
                      /\ board'[q[1]][q[2]].status = Revealed
     /\ \A p \in Positions :
          (Reveal(p[1], p[2]) /\ board[p[1]][p[2]].value = Mined
                              /\ board[p[1]][p[2]].status = Covered)
             => status' = Lost
     /\ \A p \in Positions :
          (Reveal(p[1], p[2]) /\ board[p[1]][p[2]].value # Mined) =>
             /\ (status' = Lost => status = Lost)
             /\ \A q \in MinedCells(board) :
                   board'[q[1]][q[2]].status = board[q[1]][q[2]].status
    ]_vars

(* C6 witness: the status is Lost after reveal_special revealed a mine    *)
(* next to a wrongly placed flag.                                         *)
C6_Witness ==
  /\ status = Lost
  /\ message = MsgSpecialReveal
  /\ flag_count = MINE_COUNT
  /\ MinedCells(board) \subseteq CellsWith(board, Revealed)
  /\ revealed_count < Threshold

(* C7 as stated: revealed_count is the number of cells whose status is    *)
(* Revealed.                                                              *)
C7_RevealedCountIsRevealedCells ==
  revealed_count = Cardinality(CellsWith(board, Revealed))

(* C7 as amended: revealed_count is the number of cells whose status is   *)
(* Revealed less the Revealed cells whose value is Mined.                 *)
C7_RevealedCountSkipsMines ==
  revealed_count = Cardinality(CellsWith(board, Revealed))
                     - Cardinality(CellsWith(board, Revealed) \cap MinedCells(board))

(* C7 witness: a mine was revealed after some numbers, the status is Lost *)
(* and the counter is one short of the Revealed cells.                    *)
C7_Witness ==
  /\ status = Lost
  /\ message = MsgReveal
  /\ revealed_count > 0
  /\ revealed_count + 1 = Cardinality(CellsWith(board, Revealed))

(* C8: 0 <= flag_count <= MINE_COUNT in every reachable state, so the     *)
(* remaining-mines value MINE_COUNT - flag_count is never negative.       *)
C8_FlagCountInBudget ==
  /\ 0 <= flag_count
  /\ flag_count <= MINE_COUNT
  /\ MINE_COUNT - flag_count >= 0

(* C8 witness: Flag was handled while playing, the budget is used up and  *)
(* Covered cells are left to try a further flag on.                       *)
C8_Witness ==
  /\ status = Playing
  /\ message = MsgFlag
  /\ flag_count = MINE_COUNT
  /\ CellsWith(board, Covered) # {}

(* C9: flag_count is the number of cells whose status is Flagged.         *)
C9_FlagCountIsFlaggedCells ==
  flag_count = Cardinality(CellsWith(board, Flagged))

(* C9 witness: a reveal ran with a flag on the board and revealed cells   *)
(* around it.                                                             *)
C9_Witness ==
  /\ message \in {MsgReveal, MsgSpecialReveal}
  /\ flag_count > 0
  /\ revealed_count > 1
  /\ CellsWith(board, Flagged) # {}

(* C10: with the same board and counters, reveal_multiple, reveal_special *)
(* and the Flag handler leave the same cell statuses and counters whether *)
(* the status is Playing or Pressing.                                     *)
C10_PressingSameAsPlaying ==
  LET playing == [game EXCEPT !.status = Playing]
      pressing == [game EXCEPT !.status = Pressing]
  IN  \A p \in Positions :
        /\ SameCells(reveal_multiple(playing, p[1], p[2]),
                     reveal_multiple(pressing, p[1], p[2]))
        /\ SameCells(reveal_special(playing, p[1], p[2]),
                     reveal_special(pressing, p[1], p[2]))
        /\ SameCells(flag(playing, p[1], p[2]), flag(pressing, p[1], p[2]))

(* C11: Message::Reveal on a cell that is Flagged or Revealed changes     *)
(* nothing: the cell keeps its status, no other cell changes, and         *)
(* revealed_count, flag_count and the status stay as they were.           *)
C11_RevealOfUncoveredIsNoOp ==
  \A p \in Positions :
    board[p[1]][p[2]].status # Covered =>
       reveal_multiple(game, p[1], p[2]) = game

(* C11 witness: Reveal was handled and left no cell Revealed and the      *)
(* status Playing, so its target was the one cell that is not Covered: a  *)
(* Flagged mine, still Flagged.                                           *)
C11_Witness ==
  /\ status = Playing
  /\ message = MsgReveal
  /\ revealed_count = 0
  /\ CellsWith(board, Revealed) = {}
  /\ CellsWith(board, Flagged) # {}
  /\ CellsWith(board, Flagged) \subseteq MinedCells(board)

(* C12: with the status Playing or Pressing, Message::Reveal on a Covered *)
(* Mined cell sets that cell Revealed and the status Lost, leaves         *)
(* revealed_count and flag_count as they were and changes no other cell.  *)
C12_RevealOfMineLoses ==
  status \in {Playing, Pressing} =>
    \A p \in MinedCells(board) \cap CellsWith(board, Covered) :
       reveal_multiple(game, p[1], p[2]) =
          [game EXCEPT !.board[p[1]][p[2]].status = Revealed, !.status = Lost]

(* C12 witness: Reveal was handled, the status is Lost, the mine is the   *)
(* only Revealed cell and revealed_count is 0.                            *)
C12_Witness ==
  /\ status = Lost
  /\ message = MsgReveal
  /\ revealed_count = 0
  /\ CellsWith(board, Revealed) = MinedCells(board)
  /\ flag_count = 0

(* The cells that share an edge or a corner with p, from the geometry of  *)
(* the grid alone.                                                        *)
Adjacent(p, q) ==
  /\ p # q
  /\ p[1] - q[1] \in {-1, 0, 1}
  /\ p[2] - q[2] \in {-1, 0, 1}

(* The region a reveal at p opens on board b: the least set of cells      *)
(* Covered in b that holds p (when Covered) and, with every Number(0)     *)
(* cell in it, the Covered cells adjacent to that cell.  Flagged and      *)
(* Revealed cells are never in it and nothing is reached through them.    *)
RECURSIVE Grow(_, _)
Grow(b, S) ==
  LET T == S \cup {q \in Positions :
                     /\ b[q[1]][q[2]].status = Covered
                     /\ \E c \in S : /\ b[c[1]][c[2]].value = Number(0)
                                     /\ Adjacent(c, q)}
  IN  IF T = S THEN S ELSE Grow(b, T)

Region(b, p) == IF b[p[1]][p[2]].status = Covered THEN Grow(b, {p}) ELSE {}

(* C13: with the status Playing or Pressing, Message::Reveal on a Covered *)
(* Number(0) cell p reveals, in that one call, exactly the region of p:   *)
(* the connected Number(0) cells and the cells bordering them, none left  *)
(* out (no Covered cell stays next to a newly revealed Number(0) cell);   *)
(* no other cell changes, and revealed_count grows by the number of cells *)
(* newly revealed.  On the 3x3 board with its one mine at (2,2),          *)
(* Reveal(0,0) on the fresh board reveals all 8 other cells and sets Won. *)
C13_RevealOfZeroOpensRegion ==
  status \in {Playing, Pressing} =>
    /\ \A p \in CellsWith(board, Covered) :
         board[p[1]][p[2]].value = Number(0) =>
           LET r == reveal_multiple(game, p[1], p[2])
               region == Region(board, p)
           IN  /\ CellsWith(r.board, Revealed) = CellsWith(board, Revealed) \cup region
               /\ \A q \in Positions \ region : r.board[q[1]][q[2]] = board[q[1]][q[2]]
               /\ \A q \in region : r.board[q[1]][q[2]].value = board[q[1]][q[2]].value
               /\ r.revealed_count = revealed_count + Cardinality(region)
               /\ r.flag_count = flag_count
               /\ \A c \in region : \A q \in Positions :
                    (r.board[c[1]][c[2]].value = Number(0) /\ Adjacent(c, q))
                       => r.board[q[1]][q[2]].status # Covered
    /\ (/\ CELL_ROWS = 3 /\ CELL_COLUMNS = 3
        /\ MinedCells(board) = {<<2, 2>>}
        /\ CellsWith(board, Covered) = Positions)
         => LET r == reveal_multiple(game, 0, 0)
            IN  /\ r.status = Won
                /\ r.revealed_count = 8
                /\ CellsWith(r.board, Revealed) = Positions \ {<<2, 2>>}

(* C13 witness: after Reveal, the board with its only mine at (2,2) has   *)
(* every other cell Revealed, the mine Covered and the status Won.        *)
C13_Witness ==
  /\ message = MsgReveal
  /\ status = Won
  /\ MinedCells(board) = {<<2, 2>>}
  /\ CellsWith(board, Covered) = {<<2, 2>>}
  /\ revealed_count = Threshold
  /\ flag_count = 0

(* The cells Message::SpecialReveal on p hands to reveal_multiple at the  *)
(* latest: the neighbours of p that are Covered.                          *)
CoveredAround(b, p) == {q \in Positions : Adjacent(p, q) /\ b[q[1]][q[2]].status = Covered}

NewlyRevealed(b, r) == CellsWith(r.board, Revealed) \ CellsWith(b, Revealed)

(* C14: no Message::Reveal and no Message::SpecialReveal changes the      *)
(* status of a Flagged cell, and the fill does not pass through one: each *)
(* cell a reveal opens lies in the region of its target, which is built   *)
(* from Covered cells only, so a Flagged Number(0) cell hands on nothing. *)
C14_FlaggedCellsAreBarriers ==
  \A p \in Positions :
    LET r == reveal_multiple(game, p[1], p[2])
        s == reveal_special(game, p[1], p[2])
    IN  /\ CellsWith(r.board, Flagged) = CellsWith(board, Flagged)
        /\ CellsWith(s.board, Flagged) = CellsWith(board, Flagged)
        /\ r.flag_count = flag_count
        /\ s.flag_count = flag_count
        /\ NewlyRevealed(board, r) \subseteq Region(board, p)
        /\ NewlyRevealed(board, s) \subseteq
             UNION {Region(board, q) : q \in CoveredAround(board, p)}

(* C14 witness: after a Reveal, a Flagged Number(0) cell has a Revealed   *)
(* Number(0) neighbour, which the fill passed, and a Covered neighbour    *)
(* that is not mined, which the fill did not reach through the flag.      *)
C14_Witness ==
  /\ message = MsgReveal
  /\ status = Playing
  /\ \E f \in CellsWith(board, Flagged) :
        /\ board[f[1]][f[2]].value = Number(0)
        /\ \E z \in CellsWith(board, Revealed) :
              Adjacent(f, z) /\ board[z[1]][z[2]].value = Number(0)
        /\ \E c \in CellsWith(board, Covered) :
              Adjacent(f, c) /\ board[c[1]][c[2]].value # Mined

(* C15: in every reachable state and for every cell, handling             *)
(* Message::Reveal(x, y) twice in a row leaves the same cells, counters   *)
(* and status as handling it once.                                        *)
C15_RevealIdempotent ==
  \A p \in Positions :
    LET once == reveal_multiple(game, p[1], p[2])
    IN  reveal_multiple(once, p[1], p[2]) = once

(* C15 witness: a Reveal has opened several cells and the game goes on,   *)
(* so that a repeated Reveal meets Revealed cells next to Covered ones.   *)
C15_Witness ==
  /\ message = MsgReveal
  /\ status = Playing
  /\ revealed_count >= 3
  /\ \E z \in CellsWith(board, Revealed) : \E c \in CellsWith(board, Covered) :
        Adjacent(z, c) /\ board[c[1]][c[2]].value # Mined

(* C16: whichever pending candidate each iteration of reveal_multiple     *)
(* takes, the call ends with the Game the code's pop-from-the-back order  *)
(* gives (the same Revealed cells, revealed_count and status), and no     *)
(* iteration counts a cell twice: revealed_count grows by one exactly     *)
(* when a cell that is not Mined turns from Covered to Revealed, and a    *)
(* cell that is not Covered is never turned again.                        *)
C16_RevealOrderIndependent ==
  [][RevealStep =>
       /\ (work_list' = << >>) => (game' = lifo_result)
       /\ \A p \in Positions :
            board[p[1]][p[2]].status # Covered => board'[p[1]][p[2]] = board[p[1]][p[2]]
       /\ revealed_count' - revealed_count =
            Cardinality((CellsWith(board', Revealed) \ CellsWith(board, Revealed))
                           \ MinedCells(board))
       /\ Cardinality(CellsWith(board', Revealed) \ CellsWith(board, Revealed)) <= 1
    ]_vars

(* C16 witness: a call is under way with three or more candidates to     *)
(* choose from, one cell pending twice, several cells already Revealed    *)
(* and others of the final result still to come.                          *)
C16_Witness ==
  /\ Len(work_list) >= 3
  /\ \E i, j \in 1..Len(work_list) : i < j /\ work_list[i] = work_list[j]
  /\ revealed_count >= 3
  /\ lifo_result # NoCall
  /\ CellsWith(board, Revealed) # CellsWith(lifo_result.board, Revealed)

(* The number of Flagged cells around p, from the geometry of the grid.   *)
FlagsAround(b, p) ==
  Cardinality({q \in Positions : Adjacent(p, q) /\ b[q[1]][q[2]].status = Flagged})

(* The condition under which Message::SpecialReveal on p reveals: p is a  *)
(* Revealed Number(n) cell with exactly n Flagged cells around it.        *)
ChordMatches(b, p) ==
  /\ b[p[1]][p[2]].status = Revealed
  /\ b[p[1]][p[2]].value # Mined
  /\ FlagsAround(b, p) = b[p[1]][p[2]].value.n

(* C17: Message::SpecialReveal on p changes nothing (no cell, no counter, *)
(* not the status) whenever p is not Revealed, or is a Revealed mine, or  *)
(* the number of Flagged cells around p differs from its Number.          *)
C17_ChordNoOpUnlessMatch ==
  \A p \in Positions :
    ~ChordMatches(board, p) => reveal_special(game, p[1], p[2]) = game

(* C17 witness: SpecialReveal was handled while no cell was Revealed, so  *)
(* its target was Covered or Flagged, and every cell is as it was.        *)
C17_Witness ==
  /\ message = MsgSpecialReveal
  /\ status = Playing
  /\ CellsWith(board, Revealed) = {}
  /\ revealed_count = 0
  /\ flag_count = 1

(* The board of the example of C18: mines at (0,0) and (2,2), both        *)
(* Flagged, (2,0) Covered, every other cell Revealed; (1,1) is Number(2). *)
ChordExample ==
  LET b == add_numbers(add_mines(EmptyBoard, {<<0, 0>>, <<2, 2>>}))
  IN  [board |-> [x \in Xs |-> [y \in Ys |->
                    [b[x][y] EXCEPT !.status =
                        IF <<x, y>> \in {<<0, 0>>, <<2, 2>>} THEN Flagged
                        ELSE IF <<x, y>> = <<2, 0>> THEN Covered
                        ELSE Revealed]]],
       status |-> Playing,
       revealed_count |-> 6,
       flag_count |-> 2]

(* C18: with the status Playing or Pressing, Message::SpecialReveal on a  *)
(* Revealed Number(n) cell p with exactly n Flagged cells around it       *)
(* reveals every Covered cell around p, each with its region, and nothing *)
(* else; every Flagged cell around p stays Flagged; revealed_count grows  *)
(* by the newly revealed cells that are not mined.  On the example board  *)
(* (Number(2), two Flagged and one Covered cell around it) the one        *)
(* Covered cell is the only cell that changes.                            *)
C18_ChordRevealsCoveredAround ==
  /\ status \in {Playing, Pressing} =>
       \A p \in Positions :
         ChordMatches(board, p) =>
           LET s == reveal_special(game, p[1], p[2])
               opened == UNION {Region(board, q) : q \in CoveredAround(board, p)}
           IN  /\ \A q \in CoveredAround(board, p) : s.board[q[1]][q[2]].status = Revealed
               /\ \A q \in Positions :
                    (Adjacent(p, q) /\ board[q[1]][q[2]].status = Flagged)
                       => s.board[q[1]][q[2]] = board[q[1]][q[2]]
               /\ NewlyRevealed(board, s) = opened
               /\ \A q \in Positions \ opened : s.board[q[1]][q[2]] = board[q[1]][q[2]]
               /\ s.revealed_count = revealed_count + Cardinality(opened \ MinedCells(board))
               /\ s.flag_count = flag_count
  /\ (CELL_ROWS = 3 /\ CELL_COLUMNS = 3) =>
       LET s == reveal_special(ChordExample, 1, 1)
       IN  /\ ChordExample.board[1][1].value = Number(2)
           /\ s.board[2][0].status = Revealed
           /\ \A q \in Positions \ {<<2, 0>>} :
                s.board[q[1]][q[2]] = ChordExample.board[q[1]][q[2]]
           /\ s.revealed_count = 7
           /\ s.flag_count = 2

(* C18 witness: after SpecialReveal, a Revealed Number(1) cell has its    *)
(* Flagged mine next to it, still Flagged, every other cell around it is  *)
(* Revealed, and the game is Won.                                         *)
C18_Witness ==
  /\ message = MsgSpecialReveal
  /\ status = Won
  /\ flag_count = 1
  /\ revealed_count = Threshold
  /\ \E p \in CellsWith(board, Revealed) :
        /\ board[p[1]][p[2]].value = Number(1)
        /\ FlagsAround(board, p) = 1
        /\ CoveredAround(board, p) = {}
        /\ \E m \in MinedCells(board) : Adjacent(p, m) /\ board[m[1]][m[2]].status = Flagged

(* The Game after the first k callbacks of the revealing pass of          *)
(* Message::SpecialReveal on p.                                           *)
AfterCallbacks(g, p, k) ==
  reveal_neighbors(g, SubSeq(with_surrounding_cells(p[1], p[2]), 1, k))

(* C19: within one Message::SpecialReveal that reveals, once a callback's *)
(* reveal has set the status to Lost or Won the call ends with the Game   *)
(* as that callback left it: no further cell revealed, revealed_count and *)
(* the status as that reveal set them.                                    *)
C19_ChordStopsWhenOver ==
  status \in {Playing, Pressing} =>
    \A p \in Positions :
      ChordMatches(board, p) =>
        \A k \in 1..Len(with_surrounding_cells(p[1], p[2])) :
          (/\ AfterCallbacks(game, p, k).status \in {Lost, Won}
           /\ AfterCallbacks(game, p, k - 1).status \notin {Lost, Won})
             => reveal_special(game, p[1], p[2]) = AfterCallbacks(game, p, k)

(* C20: Message::NewGame can be handled in every reachable state, in      *)
(* every status, and the state it leaves is a fresh one: status Playing,  *)
(* revealed_count 0, flag_count 0, every cell Covered, exactly MINE_COUNT *)
(* mined cells and every other cell numbered by the mines around it, as   *)
(* Game::new generates it; nothing of the state before is left.           *)
C20_NewGameIsFresh ==
  /\ ENABLED NewGame
  /\ message = MsgNewGame =>
       /\ status = Playing
       /\ revealed_count = 0
       /\ flag_count = 0
       /\ CellsWith(board, Covered) = Positions
       /\ Cardinality(MinedCells(board)) = MINE_COUNT
       /\ game = new(MinedCells(board))
       /\ \A p \in Positions \ MinedCells(board) :
            board[p[1]][p[2]].value =
              Number(Cardinality({m \in MinedCells(board) : Adjacent(p, m)}))

(* C20 witness: the state right after Message::NewGame.                   *)
C20_Witness ==
  /\ message = MsgNewGame
  /\ status = Playing
  /\ revealed_count = 0
  /\ flag_count = 0
  /\ CellsWith(board, Covered) = Positions
  /\ Cardinality(MinedCells(board)) = MINE_COUNT

(* The number of mined cells of board b among the cells that share an     *)
(* edge or a corner with p, from the geometry of the grid.                *)
MinesAround(b, p) == Cardinality({m \in MinedCells(b) : Adjacent(p, m)})

(* A board as generation promises it: exactly MINE_COUNT mined cells and  *)
(* every other cell Number(n), n the mines around it, 0 <= n <= 8.        *)
WellNumbered(b) ==
  /\ Cardinality(MinedCells(b)) = MINE_COUNT
  /\ \A p \in Positions \ MinedCells(b) :
       /\ b[p[1]][p[2]].value.tag = "Number"
       /\ b[p[1]][p[2]].value.n = MinesAround(b, p)
       /\ b[p[1]][p[2]].value.n \in 0..8

(* C21: the board of every reachable state, generated at start or by     *)
(* NewGame, has exactly MINE_COUNT mined cells and every other cell       *)
(* numbered with the true count of mines among its neighbours; and, as    *)
(* evaluated in the states right after a generation, add_mines followed   *)
(* by add_numbers gives such a board for every placement of the mines,    *)
(* mined at exactly the placed positions.                                 *)
C21_GeneratedBoardWellNumbered ==
  /\ WellNumbered(board)
  /\ message \in {NoMessage, MsgNewGame} =>
       /\ board = add_numbers(add_mines(EmptyBoard, MinedCells(board)))
       /\ \A mines \in MinePlacements :
            /\ MinedCells(add_mines(EmptyBoard, mines)) = mines
            /\ MinedCells(add_numbers(add_mines(EmptyBoard, mines))) = mines
            /\ WellNumbered(add_numbers(add_mines(EmptyBoard, mines)))

(* C21 witness: NewGame generated the board with its mine in the middle,  *)
(* where each of the eight other cells is Number(1).                      *)
C21_Witness ==
  /\ message = MsgNewGame
  /\ MinedCells(board) = {<<1, 1>>}
  /\ \A p \in Positions \ {<<1, 1>>} : board[p[1]][p[2]].value = Number(1)

(* The cells of a rows-by-columns grid that share an edge or a corner     *)
(* with (x, y).                                                           *)
NeighboursOnGrid(x, y, rows, columns) ==
  {q \in (0..(columns - 1)) \X (0..(rows - 1)) : Adjacent(<<x, y>>, q)}

(* C22: on every grid of 1..MaxSide rows and columns, a single row or a   *)
(* single column included, and for every cell (x, y) of it,               *)
(* with_surrounding_cells calls its callback exactly on the cells of the  *)
(* grid that share an edge or a corner with (x, y), each once; never on   *)
(* (x, y), never on a coordinate below 0 (an underflow of x - 1 or y - 1) *)
(* or beyond the last column or row.  On the game's own grid these are    *)
(* the calls the game's with_surrounding_cells makes.                     *)
C22_SurroundingCellsExact ==
  surround.called =>
    LET calls == surround.calls
        x == surround.x
        y == surround.y
    IN  /\ SeqToSet(calls) = NeighboursOnGrid(x, y, surround.rows, surround.columns)
        /\ Len(calls) = Cardinality(SeqToSet(calls))
        /\ \A i \in 1..Len(calls) :
             /\ calls[i][1] >= 0 /\ calls[i][1] < surround.columns
             /\ calls[i][2] >= 0 /\ calls[i][2] < surround.rows
             /\ calls[i] # <<x, y>>
        /\ (surround.rows = CELL_ROWS /\ surround.columns = CELL_COLUMNS)
              => calls = with_surrounding_cells(x, y)

(* C22 witness: on a grid of one row and several columns the call for the *)
(* first cell has visited the one cell to its right and nothing else.     *)
C22_Witness ==
  /\ surround.called
  /\ surround.rows = 1
  /\ surround.columns > 1
  /\ surround.x = 0
  /\ surround.calls = << <<1, 0>> >>

(* C23: every reveal and every chord that has started comes to its end:   *)
(* the work-list of reveal_multiple becomes empty (emptied by its last    *)
(* pop or dropped at a win or loss return) and the revealing pass of      *)
(* reveal_special runs out of cells.  Each iteration either skips its     *)
(* candidate, leaving the board as it is and the work-list one shorter,   *)
(* or turns exactly one Covered cell into Revealed and pushes at most 8   *)
(* candidates; each callback of the pass shortens the pass by one.        *)
C23_RevealAndChordTerminate ==
  /\ ~Idle ~> Idle
  /\ [][/\ RunStep =>
            \/ /\ board' = board
               /\ Len(work_list') = Len(work_list) - 1
            \/ /\ Cardinality(CellsWith(board', Covered))
                    = Cardinality(CellsWith(board, Covered)) - 1
               /\ Cardinality(CellsWith(board', Revealed))
                    = Cardinality(CellsWith(board, Revealed)) + 1
               /\ Len(work_list') <= Len(work_list) - 1 + 8
        /\ ChordNext => Len(chord_list') = Len(chord_list) - 1
       ]_vars

(* C23 witness: a SpecialReveal is under way, cells of its pass still to  *)
(* come, and the reveal it started has opened a Number(0) cell and holds  *)
(* several candidates in its work-list.                                   *)
C23_Witness ==
  /\ message = MsgSpecialReveal
  /\ chord_list # << >>
  /\ Len(work_list) >= 2
  /\ status = Playing

(* The Revealed cells of board b whose value is a Number.                 *)
RevealedNumbers(b) ==
  {p \in Positions : b[p[1]][p[2]].status = Revealed /\ b[p[1]][p[2]].value.tag = "Number"}

(* C25: in every reachable state, whatever messages were handled, reveals *)
(* after Lost or Won among them, revealed_count is the number of Revealed *)
(* cells that hold a Number: each was counted once, a revealed mine never *)
(* was; so revealed_count is at most CELL_ROWS * CELL_COLUMNS -           *)
(* MINE_COUNT, and it is that much exactly when no Number is left         *)
(* unrevealed.                                                            *)
C25_RevealedCountIsRevealedNumbers ==
  /\ revealed_count = Cardinality(RevealedNumbers(board))
  /\ revealed_count <= CELL_ROWS * CELL_COLUMNS - MINE_COUNT
  /\ revealed_count >= 0
  /\ (revealed_count = CELL_ROWS * CELL_COLUMNS - MINE_COUNT)
        <=> (RevealedNumbers(board) = Positions \ MinedCells(board))

(* C25 witness: after a Reveal every cell is Revealed, the mine too, and  *)
(* the status is Lost: one of the reveals came after the game was over,   *)
(* and revealed_count stands at the number of Number cells.               *)
C25_Witness ==
  /\ message = MsgReveal
  /\ status = Lost
  /\ CellsWith(board, Revealed) = Positions
  /\ revealed_count = CELL_ROWS * CELL_COLUMNS - MINE_COUNT

(* C26: a Revealed cell stays Revealed, with its value, through every     *)
(* message but NewGame: Reveal, SpecialReveal, Flag and both Pressing     *)
(* messages leave its status alone; Message::Flag on a Revealed cell      *)
(* changes nothing at all, flag_count included.                           *)
C26_RevealedIsPermanent ==
  [][/\ message' # MsgNewGame =>
          \A p \in CellsWith(board, Revealed) : board'[p[1]][p[2]] = board[p[1]][p[2]]
     /\ \A p \in CellsWith(board, Revealed) : flag(game, p[1], p[2]) = game
    ]_vars

(* C26 witness: Message::Flag was handled with the status Playing and     *)
(* every cell Revealed, so on a Revealed cell, and none is Flagged or     *)
(* Covered.                                                               *)
C26_Witness ==
  /\ message = MsgFlag
  /\ status = Playing
  /\ CellsWith(board, Revealed) = Positions
  /\ flag_count = 0

(* A press of a mouse button over widget w and the release of the         *)
(* secondary button over w again, from the current state: what the widgets *)
(* publish at the press (out1), the Game after Game::update has had it    *)
(* (g1), what they publish at the release (out2), the Game after that     *)
(* (g2), and the same when both events are handled before any message     *)
(* (out_click, g_click).                                                  *)
SecondaryClick(w) ==
  LET out1 == view(game, w).on_press
      g1 == update_all(game, out1)
      out2 == release_from(g1, is_pressed \cup {w}, "Right", w, 0)
      out_click == out1 \o release_from(game, is_pressed \cup {w}, "Right", w, 0)
  IN  [out1 |-> out1, g1 |-> g1, out2 |-> out2, g2 |-> update_all(g1, out2),
       out_click |-> out_click, g_click |-> update_all(game, out_click)]

(* The messages are received in the order the claim gives: Pressing(true) *)
(* at the press; at the release a Pressing(false) right before the one    *)
(* Flag(x, y), nothing but Pressing(false) besides; and Game::update      *)
(* takes Flag(x, y) with the status Playing.                              *)
ReceivedInOrder(g, received, p) ==
  /\ received # << >>
  /\ received[1] = Msg(MsgPressing(TRUE), 0, 0)
  /\ \E i \in 3..Len(received) :
       /\ received[i] = Msg(MsgFlag, p[1], p[2])
       /\ received[i - 1] = Msg(MsgPressing(FALSE), 0, 0)
       /\ \A j \in 2..Len(received) :
            j # i => received[j] = Msg(MsgPressing(FALSE), 0, 0)
       /\ update_all(g, SubSeq(received, 1, i - 1)).status = Playing

(* Where a secondary click on cell p is looked at: no message is waiting, *)
(* the status is Playing, p is Covered and its widget can be pressed.     *)
CanSecondaryClick(p) ==
  /\ shell = << >>
  /\ status = Playing
  /\ board[p[1]][p[2]].status = Covered
  /\ Cardinality(is_pressed \cup {WidgetOf(p)}) <= MaxPressed

(* C24 as stated: a secondary-button press and release over the same      *)
(* Covered cell while the game is Playing gets the messages to            *)
(* Game::update in the order Pressing(true), Pressing(false), Flag(x, y), *)
(* Flag seeing the status Playing, and the cell ends Flagged.             *)
C24_SecondaryClickFlagsCell ==
  \A p \in Positions :
    CanSecondaryClick(p) =>
      LET c == SecondaryClick(WidgetOf(p))
      IN  /\ ReceivedInOrder(game, c.out1 \o c.out2, p)
          /\ c.g2.board[p[1]][p[2]].status = Flagged

(* C24 as amended: the same order of messages, Flag seeing the status     *)
(* Playing; the cell ends Flagged and flag_count one higher when          *)
(* flag_count was below MINE_COUNT, and otherwise no cell and no counter  *)
(* changes; the status ends Playing either way, and it is the same when   *)
(* both events are handled before any message is.                         *)
C24_SecondaryClickAppliesFlag ==
  \A p \in Positions :
    CanSecondaryClick(p) =>
      LET c == SecondaryClick(WidgetOf(p))
      IN  /\ c.out1 = << Msg(MsgPressing(TRUE), 0, 0) >>
          /\ c.g1 = [game EXCEPT !.status = Pressing]
          /\ ReceivedInOrder(game, c.out1 \o c.out2, p)
          /\ c.out_click = c.out1 \o c.out2
          /\ c.g_click = c.g2
          /\ c.g2.status = Playing
          /\ c.g2.revealed_count = revealed_count
          /\ \A q \in Positions \ {p} : c.g2.board[q[1]][q[2]] = board[q[1]][q[2]]
          /\ IF flag_count < MINE_COUNT
             THEN /\ c.g2.board[p[1]][p[2]].status = Flagged
                  /\ c.g2.flag_count = flag_count + 1
             ELSE /\ c.g2.board[p[1]][p[2]].status = Covered
                  /\ c.g2.flag_count = flag_count

(* C24 witness: Game::update has just had a Flag message, which only a    *)
(* secondary-button release over the cell publishes; no message is        *)
(* waiting, no widget is pressed, the status is Playing and one cell of   *)
(* the otherwise untouched board is Flagged.                              *)
C24_Witness ==
  /\ message = MsgFlag
  /\ shell = << >>
  /\ is_pressed = {}
  /\ status = Playing
  /\ flag_count = 1
  /\ Cardinality(CellsWith(board, Flagged)) = 1
  /\ CellsWith(board, Revealed) = {}
====
